---- MODULE Spec2Model ----
(***************************************************************************)
(* A model of the ASGI gateway of muscles-asgi: the body materializer of   *)
(* RequestMaker (request.py) and the dispatch pipeline of AsgiTransport    *)
(* and AsgiServer (server.py), for one connection; and, each under a       *)
(* specification of its own, FileStorage, the form decoder's loop and the  *)
(* two query mappings of Request (request.py).                             *)
(*                                                                         *)
(* One connection is one sequential task.  Every await of receive or send, *)
(* and every call of a hook, a routing table or a route handler, is one    *)
(* step.  The collaborators that are outside the modelled files (routing   *)
(* tables, hooks, handlers, the response classes, the host's channels)     *)
(* answer nondeterministically from small sets.                            *)
(***************************************************************************)
EXTENDS Naturals, Sequences, FiniteSets

\* ------------------------------------------------------------------ bounds

\* Longest request body, in bytes.
MaxLen == 3
\* Most messages the host puts on the inbound channel.
MaxChunks == 3
\* Most registered global before_request hooks.
MaxReqHooks == 2
\* Most registered before_response hooks.
MaxRespHooks == 1
\* Most registered routing-table instances.
MaxTables == 2
\* Most key=value pairs in a URL-encoded form body or query string.
MaxPairs == 3
\* Most values in an accept header.
MaxAccept == 2
\* Most calls of save on one FileStorage.
MaxSaves == 2
\* Most before_request hooks of one route.
MaxRouteHooks == 1

\* ------------------------------------------------------------ byte strings

\* The bytes a body is made of: the two JSON brackets and one byte, 0xFF,
\* that no UTF-8 text contains.
Byte == {"{", "}", "FF"}

RECURSIVE SeqsUpTo(_, _)
SeqsUpTo(S, n) ==
    IF n = 0 THEN {<< >>}
    ELSE LET shorter == SeqsUpTo(S, n - 1)
         IN  shorter \cup {Append(s, x) : s \in {t \in shorter : Len(t) = n - 1}, x \in S}

Range(s) == {s[i] : i \in 1..Len(s)}

\* bytes.decode(charset): the text, or the exception it raises.  An unknown
\* codec name raises LookupError; 0xFF is not decodable as UTF-8.
BytesDecode(bytes, charset) ==
    IF charset # "utf-8" THEN [ok |-> FALSE, raised |-> "LookupError", text |-> << >>]
    ELSE IF "FF" \in Range(bytes)
         THEN [ok |-> FALSE, raised |-> "UnicodeDecodeError", text |-> << >>]
         ELSE [ok |-> TRUE, raised |-> "none", text |-> bytes]

\* json.loads over the texts of this alphabet: "{}" is the one JSON document.
JsonLoads(text) ==
    IF text = <<"{", "}">> THEN [ok |-> TRUE, raised |-> "none"]
    ELSE [ok |-> FALSE, raised |-> "JSONDecodeError"]

\* ------------------------------------------------------------------ headers

Absent == "absent"
\* The accept header is a sequence of values; this one stands for no header.
NoAccept == <<Absent>>

\* RequestMaker._request_types, in table order.
RequestTypes ==
    << [mime |-> "multipart/form-data",               format |-> "multipart"],
       [mime |-> "application/x-www-form-urlencoded", format |-> "form"],
       [mime |-> "text/plain",                        format |-> "text"],
       [mime |-> "text/html",                         format |-> "html"],
       [mime |-> "application/javascript",            format |-> "javascript"],
       [mime |-> "application/json",                  format |-> "json"],
       [mime |-> "application/xml",                   format |-> "xml"] >>

NoType == "None"

\* A header set: h.ct is the MIME type of the content-type header, h.charset
\* and h.boundary its charset or boundary parameter (Absent when there is
\* none), h.accept the comma-separated values of the accept header (NoAccept
\* when there is none).
RECURSIVE RequestTypeFrom(_, _)
RequestTypeFrom(h, i) ==
    IF i > Len(RequestTypes) THEN NoType
    ELSE IF h.ct # Absent /\ RequestTypes[i].mime = h.ct THEN RequestTypes[i].format
    ELSE IF h.accept # NoAccept /\ RequestTypes[i].mime \in Range(h.accept)
         THEN RequestTypes[i].format
    ELSE RequestTypeFrom(h, i + 1)

\* RequestMaker.request_type
RequestType(h) ==
    IF h.ct = Absent /\ h.accept = NoAccept THEN NoType ELSE RequestTypeFrom(h, 1)

\* RequestMaker.charset
Charset(h) == IF h.ct # Absent /\ h.charset # Absent THEN h.charset ELSE "utf-8"

\* A selection that has the JSON decoder stand in for every format without a
\* decoder of its own.
DecoderForEveryFormat(h) ==
    IF RequestType(h) = NoType THEN "raw"
    ELSE IF RequestType(h) \in {"form", "multipart"} THEN RequestType(h)
    ELSE "json"

\* The make_body_from_<type> method RequestMaker.make calls.
Decoder(h) ==
    IF RequestType(h) \in {"json", "form", "multipart"} THEN RequestType(h) ELSE "raw"

\* libmagic's MIME type of a buffer: empty input, text, or binary data.
MagicFromBuffer(bytes) ==
    IF bytes = << >> THEN "application/x-empty"
    ELSE IF "FF" \in Range(bytes) THEN "application/octet-stream"
    ELSE "text/plain"

\* RequestMaker.text_mime_types
TextMimeTypes ==
    {"text/html", "text/plain", "text/calendar", "application/xml",
     "application/json", "application/ld+json", "text/javascript"}

\* ------------------------------------------------------------------- values

\* A body value: where it comes from and, for a hook's or a table's, whose it is.
Body(src, n) == [src |-> src, n |-> n]
EmptyBytes == Body("b''", 0)
NoBody == Body("None", 0)

\* A response object: BaseResponse(status, body, headers).
Response(status, body, headers) == [status |-> status, body |-> body, headers |-> headers]
NoResponse == Response(0, NoBody, "none")

\* An exception object as send_error reads it: its status attribute.
NoError == [status |-> 0]
Error(status) == [status |-> status]

\* A message on the outbound channel.
Message(type, status, headers, body) ==
    [type |-> type, status |-> status, headers |-> headers, body |-> body]
LifespanComplete(type) == Message(type, 0, "none", NoBody)

\* A message on the inbound channel; more_body is FALSE when the key is absent.
Inbound(type, body, more) == [type |-> type, body |-> body, more_body |-> more]

\* The Request that RequestMaker.make builds.
NoRequest ==
    [made |-> FALSE, type |-> "none", method |-> "None", body |-> "None",
     exception |-> NoError, is_json |-> FALSE, is_xml |-> FALSE,
     is_form |-> FALSE, is_buffer |-> FALSE]

\* Request.is_exception
IsException(r) == r.exception # NoError

\* request.route and request.itinerary, with handle_request's local
\* `dictionary`: whether a table matched and with a redirect target, the table
\* the match is from (request.route), the table recorded as request.itinerary,
\* the table whose path parameters `dictionary` holds, and the number of
\* before_request hooks of the matched route.
NoRoute ==
    [matched |-> FALSE, redirect |-> FALSE, table |-> 0, itinerary |-> 0,
     dictionary |-> 0, hooks |-> 0]

\* ------------------------------------------------------------ file storage

\* A file object: the path it was opened on, its mode, whether it was closed,
\* and its position.
Handle(path, mode) == [path |-> path, mode |-> mode, closed |-> FALSE, position |-> 0]

\* What FileStorage.load last gave: the bytes read, or the exception raised.
NoLoad == [called |-> FALSE, raised |-> "none", bytes |-> << >>]
Loaded(bytes) == [called |-> TRUE, raised |-> "none", bytes |-> bytes]
LoadRaised(exception) == [called |-> TRUE, raised |-> exception, bytes |-> << >>]

\* FileStorage.__init__: the value is written to a new NamedTemporaryFile
\* (mode w+b), which is rewound.  `handles` are the file objects the storage
\* has opened and not closed, `written` the bytes save wrote to its path,
\* `saved` whether a call of save returned, `loaded` what the last load since
\* then gave.
FileStorage(value) ==
    [made |-> TRUE, value |-> value, filepath |-> "tempfile",
     fp |-> Handle("tempfile", "w+b"), handles |-> 1, tempClosed |-> FALSE,
     saves |-> 0, saved |-> FALSE, written |-> << >>, loaded |-> NoLoad,
     deleted |-> FALSE]

\* No FileStorage was made.
NoFile ==
    [made |-> FALSE, value |-> << >>, filepath |-> "None",
     fp |-> Handle("None", "None"), handles |-> 0, tempClosed |-> FALSE,
     saves |-> 0, saved |-> FALSE, written |-> << >>, loaded |-> NoLoad,
     deleted |-> FALSE]

\* The bytes of the file at a path, as a reader of that path finds them.
Contents(f, path) == IF path = "tempfile" THEN f.value ELSE f.written

\* file.read(): ValueError on a closed file, io.UnsupportedOperation on a
\* file opened for writing only, else the bytes from the position on.
Read(f) ==
    IF f.fp.closed THEN LoadRaised("ValueError")
    ELSE IF f.fp.mode = "wb" THEN LoadRaised("UnsupportedOperation")
    ELSE LET bytes == Contents(f, f.fp.path)
         IN  Loaded(SubSeq(bytes, f.fp.position + 1, Len(bytes)))

\* The file after a read that returned: the position is at the end.
AfterRead(f) == [f EXCEPT !.fp.position = Len(Contents(f, f.fp.path))]

\* file.close(): closes an open file, does nothing to a closed one.
Close(f) ==
    IF f.fp.closed THEN f
    ELSE [f EXCEPT !.fp.closed = TRUE,
                   !.handles = f.handles - 1,
                   !.tempClosed = f.tempClosed \/ f.fp.path = "tempfile"]

\* ------------------------------------------------------ URL-encoded strings

\* A URL-encoded string as its key=value pairs, in order; "" is a blank value.
Keys == {"a", "b"}
Values == {"", "1", "2"}
Pair(k, v) == [k |-> k, v |-> v]

\* urllib.parse.parse_qsl with its default keep_blank_values=False: the pairs
\* in order, without those whose value is blank.
ParseQsl(string) == SelectSeq(string, LAMBDA pair : pair.v # "")

\* The values of one key among parsed pairs, in order.
ValuesOf(parsed, k) ==
    LET own == SelectSeq(parsed, LAMBDA pair : pair.k = k)
    IN  [i \in 1..Len(own) |-> own[i].v]

\* urllib.parse.parse_qs: each key that has a value, with the list of its values.
ParseQs(string) == [k \in Keys |-> ValuesOf(ParseQsl(string), k)]

\* What a mapping holds for a key: nothing, one value, or a list of values.
Missing == [kind |-> "missing", items |-> << >>]
Scalar(v) == [kind |-> "scalar", items |-> <<v>>]
List(items) == [kind |-> "list", items |-> items]
EmptyDict == [k \in Keys |-> Missing]

\* FieldStorage(name, value)
FieldStorage(name, value) == [name |-> name, value |-> value]

\* One turn of make_body_from_form's loop: a key that holds a list gets the
\* new FieldStorage appended, a key that holds a FieldStorage gets the list of
\* that and the new one, any other key gets the new FieldStorage.
FormField(dict, pair) ==
    LET held == dict[pair.k]
        new == FieldStorage(pair.k, pair.v)
    IN  CASE held.kind = "list" -> [dict EXCEPT ![pair.k] = List(Append(held.items, new))]
          [] held.kind = "scalar" -> [dict EXCEPT ![pair.k] = List(held.items \o <<new>>)]
          [] OTHER -> [dict EXCEPT ![pair.k] = Scalar(new)]

\* A rebuild that forgets the value the key held.
RebuildDropsEarlier(held, v) == <<v>>

\* d = [params[val[0]], val[1]]
Rebuild(held, v) == <<held, v>>

\* One turn of m_query's loop: a key that holds a scalar is deleted and set
\* again to the list of the old and the new value, a key that holds a list
\* gets the value appended, any other key gets the value.
MQueryPair(dict, pair) ==
    LET held == dict[pair.k]
    IN  CASE held.kind = "scalar" ->
                [dict EXCEPT ![pair.k] = List(Rebuild(held.items[1], pair.v))]
          [] held.kind = "list" -> [dict EXCEPT ![pair.k] = List(Append(held.items, pair.v))]
          [] OTHER -> [dict EXCEPT ![pair.k] = Scalar(pair.v)]

\* Request.query: every key of parse_qs with its list of values, or with the
\* value when there is one only.
Query(string) ==
    LET q == ParseQs(string)
    IN  [k \in Keys |->
            IF q[k] = << >> THEN Missing
            ELSE IF Len(q[k]) > 1 THEN List(q[k]) ELSE Scalar(q[k][1])]

\* ---------------------------------------------------------------- the state

VARIABLES
    scope,            \* the connection's scope: type, method, headers
    errorHandler,     \* AsgiServer.__error_handler
    nBeforeRequest,   \* registered global before_request hooks
    nBeforeResponse,  \* registered before_response hooks
    nTables,          \* registered routing-table instances
    inbox,            \* messages the host has for receive(), in order
    received,         \* messages receive() has returned, in order
    body,             \* get_request_body's accumulator
    pc,               \* where the connection's task is
    request,          \* the Request, once made
    idx,              \* the running loop's position
    route,            \* request.route and request.itinerary
    resp,             \* the response in hand
    err,              \* the error send_error is reporting
    caller,           \* who called make_response
    sent,             \* messages delivered on the outbound channel
    handed,           \* the responses given to make_response, in order
    handlerCalls,     \* invocations of a route handler
    reqHooksRun,      \* global before_request hooks called, in order
    routeQueries,     \* tables asked get_current_route, in order
    errQueries,       \* tables asked get_current_error_handler, in order
    respHooksRun,     \* before_response calls of the running emission: hook, given, returned
    trail,            \* what happened on the way: see NoTrail
    file,             \* the FileStorage at hand
    pairs,            \* the key=value pairs of a URL-encoded string
    pos,              \* pairs the running loop has gone through
    fields,           \* make_body_from_form's mapping
    params,           \* Request.m_query's mapping
    p                 \* Request.query's mapping

cfgVars == <<scope, errorHandler, nBeforeRequest, nBeforeResponse, nTables>>
chanVars == <<inbox, received, body>>
ctlVars == <<request, idx, route, resp, err, caller>>
obsVars == <<handed, handlerCalls, reqHooksRun, routeQueries, errQueries, respHooksRun, trail>>
urlVars == <<pairs, pos, fields, params, p>>
valVars == <<file, urlVars>>
vars == <<cfgVars, valVars, chanVars, pc, ctlVars, sent, obsVars>>

\* The history kept for the properties: whether the body decoder raised, whether
\* a static prefix matched, the global hook that ended dispatch and what it
\* returned, what the route handler returned, the stage a failure came from,
\* the table whose error handler wrote the error response's body, the
\* before_request hooks of the matched route that were called, and the table
\* whose path parameters the handler was given.
NoTrail ==
    [decodeFailed |-> FALSE, static |-> FALSE,
     stopHook |-> 0, stopValue |-> [kind |-> "none", resp |-> NoResponse],
     returned |-> [kind |-> "none", items |-> << >>],
     failedAt |-> "none", errorTable |-> 0, customError |-> FALSE,
     routeHooksRun |-> 0, handlerParams |-> 0]

\* ------------------------------------------------------------ configuration

NoHeaders == [ct |-> Absent, charset |-> Absent, boundary |-> Absent, accept |-> NoAccept]
ContentType(ct, charset) ==
    [ct |-> ct, charset |-> charset, boundary |-> Absent, accept |-> NoAccept]

HttpHeaders ==
    {NoHeaders,
     ContentType("application/json", Absent),
     ContentType("application/json", "bogus"),
     ContentType("application/x-www-form-urlencoded", Absent),
     ContentType("multipart/form-data", Absent)}

\* The connections served: GET requests with each header set, OPTIONS requests
\* (pre-flight, without content headers), lifespan and websocket connections.
Scopes ==
    [type : {"http"}, method : {"GET"}, headers : HttpHeaders]
    \cup [type : {"http"}, method : {"OPTIONS"}, headers : {NoHeaders}]
    \cup [type : {"lifespan", "websocket"}, method : {"None"}, headers : {NoHeaders}]

Chunk(bytes, more) == Inbound("http.request", bytes, more)

\* What the host delivers on a connection of each type.
Inboxes(s) ==
    IF s.type = "http" THEN
        {<<Chunk(<<"{">>, TRUE), Chunk(<<"}">>, FALSE)>>,
         <<Chunk(<<"FF">>, FALSE)>>,
         <<Chunk(<<"{">>, TRUE), Inbound("http.disconnect", << >>, FALSE)>>}
    ELSE IF s.type = "lifespan" THEN
        {<<Inbound("lifespan.startup", << >>, FALSE)>>,
         <<Inbound("lifespan.startup", << >>, FALSE), Inbound("lifespan.shutdown", << >>, FALSE)>>,
         <<Inbound("lifespan.shutdown", << >>, FALSE)>>}
    ELSE {<<Inbound("websocket.connect", << >>, FALSE)>>}

\* AsgiServer.__error_handler: AsgiStrategy.execute's default None, a class
\* derived from Exception, or a class that is not.
ErrorHandlers == {"None", "ExceptionClass", "OtherClass"}

Idle ==
    /\ received = << >>
    /\ body = << >>
    /\ request = NoRequest
    /\ idx = 0
    /\ route = NoRoute
    /\ resp = NoResponse
    /\ err = NoError
    /\ caller = "none"
    /\ sent = << >>
    /\ handed = << >>
    /\ handlerCalls = 0
    /\ reqHooksRun = << >>
    /\ routeQueries = << >>
    /\ errQueries = << >>
    /\ respHooksRun = << >>
    /\ trail = NoTrail

\* No FileStorage and no URL-encoded string at hand.
NoValues ==
    /\ file = NoFile
    /\ pairs = << >>
    /\ pos = 0
    /\ fields = EmptyDict
    /\ params = EmptyDict
    /\ p = EmptyDict

Init ==
    /\ scope \in Scopes
    /\ inbox \in Inboxes(scope)
    /\ errorHandler \in ErrorHandlers
    /\ nTables \in 0..MaxTables
    /\ nBeforeRequest \in (IF scope.type = "http" THEN 0..MaxReqHooks ELSE {0})
    /\ nBeforeResponse \in (IF scope.type = "http" THEN 0..MaxRespHooks ELSE {0})
    /\ pc = "make_request"
    /\ Idle
    /\ NoValues

\* ------------------------------------------------------- the body materializer

\* RequestMaker.make up to the decoder's first await: the multipart decoder is
\* called without its two positional parameters, which raises TypeError; no
\* handler of make or make_request turns that into a Request.
MakeRequest ==
    /\ pc = "make_request"
    /\ IF Decoder(scope.headers) = "multipart"
       THEN /\ pc' = "raised"
            /\ trail' = [trail EXCEPT !.decodeFailed = TRUE, !.failedAt = "decoder"]
       ELSE /\ pc' = "receive"
            /\ UNCHANGED trail
    /\ UNCHANGED <<cfgVars, valVars, chanVars, ctlVars, sent, handed, handlerCalls, reqHooksRun,
                   routeQueries, errQueries, respHooksRun>>

\* A loop that assigns the chunk instead of adding it.
AppendChunkAssigns(acc, message) == message.body

\* body += message.get('body', b'')
AppendChunk(acc, message) == acc \o message.body

\* The messages get_request_body reads; any other type leaves body and
\* more_body as they are.
IsBodyMessage(message) == message.type \in {"lifespan.startup", "http.request"}

\* One turn of get_request_body's loop: await receive(), then add the chunk;
\* the loop ends after a chunk whose more_body is false.  With nothing on the
\* channel the await does not return.
Receive ==
    /\ pc = "receive"
    /\ inbox # << >>
    /\ LET message == Head(inbox) IN
        /\ inbox' = Tail(inbox)
        /\ received' = Append(received, message)
        /\ IF IsBodyMessage(message)
           THEN /\ body' = AppendChunk(body, message)
                /\ pc' = IF message.more_body THEN "receive" ELSE "decode"
           ELSE UNCHANGED <<body, pc>>
    /\ UNCHANGED <<cfgVars, valVars, ctlVars, sent, obsVars>>

\* The status send_error reads from an ApplicationException built without one.
DefaultErrorStatus == 500

\* What the decoder make selects does with the assembled body: a value of
\* some kind, an ApplicationException (which make catches and carries in the
\* Request), or any other exception (which make lets through).
DecodeBody(h, bytes) ==
    LET text == BytesDecode(bytes, Charset(h))
        value(kind) == [outcome |-> "value", kind |-> kind]
        carried == [outcome |-> "carried", kind |-> "None"]
        raised == [outcome |-> "raised", kind |-> "None"]
    IN  CASE Decoder(h) = "json" ->
                IF Len(bytes) = 0 THEN value("json")
                ELSE IF ~text.ok
                     THEN (IF text.raised = "UnicodeDecodeError" THEN carried ELSE raised)
                     ELSE (IF JsonLoads(text.text).ok THEN value("json") ELSE carried)
          [] Decoder(h) = "form" ->
                IF text.ok THEN value("fields") ELSE raised
          [] OTHER ->
                IF MagicFromBuffer(bytes) \notin TextMimeTypes
                THEN value("FileStorage") ELSE value("bytes")

\* Request(...) as RequestMaker.make fills it.
MakeRequestObject(s, decoded) ==
    [made |-> TRUE, type |-> s.type, method |-> s.method,
     body |-> decoded.kind,
     exception |-> IF decoded.outcome = "carried" THEN Error(DefaultErrorStatus) ELSE NoError,
     is_json |-> RequestType(s.headers) = "json",
     is_xml |-> RequestType(s.headers) = "xml",
     is_form |-> RequestType(s.headers) \in {"multipart", "form"},
     is_buffer |-> RequestType(s.headers) = NoType]

\* The first failing stage is the one the trail keeps.
Failed(t, stage) == IF t.failedAt = "none" THEN [t EXCEPT !.failedAt = stage] ELSE t

\* The rest of RequestMaker.make and AsgiTransport.make_request: decode the
\* body (the raw decoder may put it in a FileStorage) and build the Request,
\* whose constructor runs the init_request hooks.  An exception the decoder
\* or a hook lets through is re-raised by make_request as an
\* ApplicationException, which nothing above it catches.
Decode ==
    /\ pc = "decode"
    /\ \E hookRaises \in BOOLEAN :
        LET decoded == DecodeBody(scope.headers, body)
            noted == [trail EXCEPT !.decodeFailed = decoded.outcome # "value"]
        IN  /\ file' = IF decoded.kind = "FileStorage" THEN FileStorage(body) ELSE file
            /\ IF decoded.outcome = "raised" \/ hookRaises
               THEN /\ pc' = "raised"
                    /\ trail' = Failed(noted, IF decoded.outcome = "raised"
                                              THEN "decoder" ELSE "init_request")
                    /\ UNCHANGED request
               ELSE /\ pc' = "handler"
                    /\ request' = MakeRequestObject(scope, decoded)
                    /\ trail' = noted
    /\ UNCHANGED <<cfgVars, urlVars, chanVars, idx, route, resp, err, caller, sent, handed,
                   handlerCalls, reqHooksRun, routeQueries, errQueries, respHooksRun>>

\* ------------------------------------------------------------- the dispatcher

\* AsgiServer.handler: a Request that carries an exception goes to send_error;
\* a static match returns handle_static's generator, which nothing iterates, so
\* none of its body runs; anything else goes to handle_request.
ServerHandler ==
    /\ pc = "handler"
    /\ IF IsException(request)
       THEN /\ err' = request.exception
            /\ pc' = "send_error"
            /\ trail' = Failed(trail, "decode")
       ELSE \E static \in (IF scope.type = "http" THEN BOOLEAN ELSE {FALSE}) :
            /\ pc' = IF static THEN "done" ELSE "handle_request"
            /\ trail' = [trail EXCEPT !.static = static]
            /\ UNCHANGED err
    /\ UNCHANGED <<cfgVars, valVars, chanVars, request, idx, route, resp, caller, sent, handed,
                   handlerCalls, reqHooksRun, routeQueries, errQueries, respHooksRun>>

\* `return await self.__transport.make_response(r)` from the place `who`.
CallMakeResponse(r, who) ==
    /\ resp' = r
    /\ caller' = who
    /\ handed' = Append(handed, r)
    /\ pc' = "make_response"

\* `return await self.send_error(e, request)`
CallSendError(e, stage) ==
    /\ err' = e
    /\ pc' = "send_error"
    /\ trail' = Failed(trail, stage)

\* handle_request's first lines: a lifespan request gets an empty 200 response;
\* any other goes to the global before_request hooks.
HandleRequest ==
    /\ pc = "handle_request"
    /\ IF request.type \in {"lifespan", "None"}
       THEN /\ CallMakeResponse(Response(200, NoBody, "default"), "lifespan")
            /\ UNCHANGED idx
       ELSE /\ pc' = "before_request"
            /\ idx' = 1
            /\ UNCHANGED <<resp, caller, handed>>
    /\ UNCHANGED <<cfgVars, valVars, chanVars, request, route, err, sent, handlerCalls,
                   reqHooksRun, routeQueries, errQueries, respHooksRun, trail>>

\* What a global before_request hook answers: an empty value, a non-empty
\* string, a response object of its own, or an exception.
HookValues ==
    {[kind |-> "empty", resp |-> NoResponse],
     [kind |-> "raise", resp |-> NoResponse],
     [kind |-> "str", resp |-> Response(0, Body("hook string", 0), "none")],
     [kind |-> "Response", resp |-> Response(200, Body("hook response", 0), "default")],
     [kind |-> "Response", resp |-> Response(403, Body("hook response", 0), "default")]}

\* A dispatcher that wraps whatever the hook returned.
WrapHookValueAlways(v) == Response(200, v.resp.body, "default")

\* Only a string is wrapped into a response; any other value is passed on as it is.
WrapHookValue(v) ==
    IF v.kind = "str" THEN Response(200, v.resp.body, "default") ELSE v.resp

\* One global before_request hook, in registration order.
BeforeRequestHook ==
    /\ pc = "before_request"
    /\ idx <= nBeforeRequest
    /\ reqHooksRun' = Append(reqHooksRun, idx)
    /\ \E v \in HookValues :
        CASE v.kind = "empty" ->
                /\ idx' = idx + 1
                /\ UNCHANGED <<pc, resp, err, caller, handed, trail>>
          [] v.kind = "raise" ->
                /\ CallSendError(Error(500), "before_request")
                /\ UNCHANGED <<idx, resp, caller, handed>>
          [] OTHER ->
                /\ CallMakeResponse(WrapHookValue(v), "hook")
                /\ trail' = [trail EXCEPT !.stopHook = idx, !.stopValue = v]
                /\ UNCHANGED <<idx, err>>
    /\ UNCHANGED <<cfgVars, valVars, chanVars, request, route, sent, handlerCalls,
                   routeQueries, errQueries, respHooksRun>>

\* Every hook answered an empty value: on to route resolution.
BeforeRequestEnd ==
    /\ pc = "before_request"
    /\ idx > nBeforeRequest
    /\ pc' = "route"
    /\ idx' = 1
    /\ UNCHANGED <<cfgVars, valVars, chanVars, request, route, resp, err, caller, sent, obsVars>>

\* A loop that keeps the path parameters of the first table it asked.
DictionaryOfFirst(held, table) == IF held = 0 THEN table ELSE held

\* `call, dictionary = instance.get_current_route(request)`: the local holds
\* the path parameters of the table asked last.
Dictionary(held, table) == table

\* One routing table's get_current_route, in registration order.  A match sets
\* request.route and request.itinerary, runs the route's own before_request
\* hooks, of which there are `hooks` and of which the one after `ran` may
\* raise, and leaves the loop.
QueryRoute ==
    /\ pc = "route"
    /\ idx <= nTables
    /\ routeQueries' = Append(routeQueries, idx)
    /\ \E answer \in {"none", "match", "redirect", "raise", "hook raises"},
          hooks \in 0..MaxRouteHooks, ran \in 0..MaxRouteHooks :
        LET asked == [route EXCEPT !.dictionary = Dictionary(route.dictionary, idx)]
            found == [asked EXCEPT !.matched = TRUE, !.table = idx, !.itinerary = idx,
                                   !.hooks = hooks]
        IN  CASE answer = "none" ->
                    /\ hooks = 0 /\ ran = 0
                    /\ idx' = idx + 1
                    /\ route' = asked
                    /\ UNCHANGED <<pc, err, trail>>
              [] answer = "raise" ->
                    /\ hooks = 0 /\ ran = 0
                    /\ CallSendError(Error(500), "route")
                    /\ UNCHANGED <<idx, route>>
              [] answer = "hook raises" ->
                    /\ ran < hooks
                    /\ route' = found
                    /\ err' = Error(500)
                    /\ pc' = "send_error"
                    /\ trail' = [Failed(trail, "route hook") EXCEPT !.routeHooksRun = ran + 1]
                    /\ UNCHANGED idx
              [] OTHER ->
                    /\ ran = hooks
                    /\ route' = [found EXCEPT !.redirect = (answer = "redirect")]
                    /\ pc' = "dispatch"
                    /\ trail' = [trail EXCEPT !.routeHooksRun = ran]
                    /\ UNCHANGED <<idx, err>>
    /\ UNCHANGED <<cfgVars, valVars, chanVars, request, resp, caller, sent, handed, handlerCalls,
                   reqHooksRun, errQueries, respHooksRun>>

\* No table matched.
RouteEnd ==
    /\ pc = "route"
    /\ idx > nTables
    /\ pc' = "dispatch"
    /\ UNCHANGED <<cfgVars, valVars, chanVars, request, idx, route, resp, err, caller, sent, obsVars>>

\* Without a route, and also for a route with a redirect target (whose
\* redirect response is built and then dropped), handle_request reaches its
\* last line: send_error(NotFoundException(404)).
NotFound ==
    /\ pc = "dispatch"
    /\ ~route.matched \/ route.redirect
    /\ CallSendError(Error(404), "not found")
    /\ UNCHANGED <<cfgVars, valVars, chanVars, request, idx, route, resp, caller, sent, handed,
                   handlerCalls, reqHooksRun, routeQueries, errQueries, respHooksRun>>

\* What a route handler gives back: a response object, a string, bytes, a
\* mapping, a tuple of 0 to 3 items (body, status, headers), any other object,
\* or an exception.
TupleItems == <<Body("tuple item", 0), 201, "tuple headers">>
HandlerReturns ==
    {[kind |-> k, items |-> << >>] :
        k \in {"Response", "str", "bytes", "dict", "other",
               "ApplicationException", "Exception"}}
    \cup {[kind |-> "tuple", items |-> SubSeq(TupleItems, 1, n)] : n \in 0..3}

\* resp[i] of a tuple, 0-based as in the code.
Item(t, i) == IF i + 1 <= Len(t) THEN [ok |-> TRUE, v |-> t[i + 1]] ELSE [ok |-> FALSE, v |-> 0]

\* The tuple branch: `if len(resp) >= 0: body = resp[0]`, `if len(resp) >= 1:
\* status = resp[1]`, `if len(resp) >= 2: headers = resp[2]`.  Each guard lets
\* through a tuple one item too short, whose indexing raises IndexError.
NormalizeTuple(t) ==
    LET b == IF Len(t) >= 0 THEN Item(t, 0) ELSE [ok |-> TRUE, v |-> NoBody]
        s == IF Len(t) >= 1 THEN Item(t, 1) ELSE [ok |-> TRUE, v |-> 200]
        h == IF Len(t) >= 2 THEN Item(t, 2) ELSE [ok |-> TRUE, v |-> "default"]
    IN  IF b.ok /\ s.ok /\ h.ok
        THEN [ok |-> TRUE, resp |-> Response(s.v, b.v, h.v)]
        ELSE [ok |-> FALSE, resp |-> NoResponse]

\* The return value made into a BaseResponse.
Normalize(r) ==
    CASE r.kind = "Response" ->
            [ok |-> TRUE, resp |-> Response(200, Body("handler response", 0), "default")]
      [] r.kind = "tuple" -> NormalizeTuple(r.items)
      [] OTHER -> [ok |-> TRUE, resp |-> Response(200, Body(r.kind, 0), "default")]

\* The route's handler is called with the request and `dictionary`; its value
\* is normalized, handed to the
\* table's modify_response and sent.  ApplicationException becomes a 400
\* error, any other exception a 500 error.
InvokeHandler ==
    /\ pc = "dispatch"
    /\ route.matched /\ ~route.redirect
    /\ handlerCalls' = handlerCalls + 1
    /\ \E r \in HandlerReturns, modifyRaises \in BOOLEAN :
        LET noted == [trail EXCEPT !.returned = [kind |-> r.kind, items |-> r.items],
                                   !.handlerParams = route.dictionary]
            normal == Normalize(r)
            fail(e, stage) ==
                /\ err' = e
                /\ pc' = "send_error"
                /\ trail' = Failed(noted, stage)
                /\ UNCHANGED <<resp, caller, handed>>
        IN  CASE r.kind = "ApplicationException" -> fail(Error(400), "handler")
              [] r.kind = "Exception" -> fail(Error(500), "handler")
              [] ~normal.ok -> fail(Error(500), "normalize")
              [] modifyRaises -> fail(Error(500), "modify_response")
              [] OTHER ->
                    /\ CallMakeResponse(normal.resp, "handler")
                    /\ trail' = noted
                    /\ UNCHANGED err
    /\ UNCHANGED <<cfgVars, valVars, chanVars, request, idx, route, sent, reqHooksRun,
                   routeQueries, errQueries, respHooksRun>>

\* ------------------------------------------------------------- the error path

\* send_error up to its loop over the tables.  issubclass(None, Exception)
\* raises TypeError, which leaves send_error; a class derived from Exception is
\* instantiated and its handler builds the response; for any other class the
\* response is a BadResponse.
SendError ==
    /\ pc = "send_error"
    /\ CASE errorHandler = "None" ->
                /\ pc' = "raised"
                /\ UNCHANGED <<resp, idx>>
                /\ trail' = Failed(trail, "send_error")
         [] errorHandler = "ExceptionClass" ->
                /\ resp' = Response(err.status, Body("custom error", 0), "default")
                /\ pc' = "error_tables"
                /\ idx' = 1
                /\ trail' = [trail EXCEPT !.customError = TRUE]
         [] OTHER ->
                /\ resp' = Response(err.status, Body("BadResponse", 0), "default")
                /\ pc' = "error_tables"
                /\ idx' = 1
                /\ UNCHANGED trail
    /\ UNCHANGED <<cfgVars, valVars, chanVars, request, route, err, caller, sent, handed,
                   handlerCalls, reqHooksRun, routeQueries, errQueries, respHooksRun>>

\* One routing table's get_current_error_handler, in registration order, asked
\* about the response chosen above whichever branch chose it.  The first
\* table that has a handler gets its result written into resp.body and ends
\* the loop.
QueryErrorHandler ==
    /\ pc = "error_tables"
    /\ idx <= nTables
    /\ errQueries' = Append(errQueries, idx)
    /\ \E answer \in {"none", "match", "raise"} :
        CASE answer = "none" ->
                /\ idx' = idx + 1
                /\ UNCHANGED <<pc, resp, caller, handed, trail>>
          [] answer = "raise" ->
                /\ pc' = "raised"
                /\ trail' = Failed(trail, "error handler")
                /\ UNCHANGED <<idx, resp, caller, handed>>
          [] OTHER ->
                /\ CallMakeResponse([resp EXCEPT !.body = Body("table error", idx)], "send_error")
                /\ trail' = [trail EXCEPT !.errorTable = idx]
                /\ UNCHANGED idx
    /\ UNCHANGED <<cfgVars, valVars, chanVars, request, route, err, sent, handlerCalls,
                   reqHooksRun, routeQueries, respHooksRun>>

\* No table has a handler for the response: it is sent as it was chosen.
ErrorHandlersEnd ==
    /\ pc = "error_tables"
    /\ idx > nTables
    /\ CallMakeResponse(resp, "send_error")
    /\ UNCHANGED <<cfgVars, valVars, chanVars, request, idx, route, err, sent, handlerCalls,
                   reqHooksRun, routeQueries, errQueries, respHooksRun, trail>>

\* --------------------------------------------------------------- the transport

\* Request.body: AttributeException when there is no body, None for a
\* buffer-classified request, else the body.
RequestBody(r) ==
    IF r.body = "None" THEN [ok |-> FALSE, v |-> "None"]
    ELSE [ok |-> TRUE, v |-> IF r.is_buffer THEN "None" ELSE r.body]

\* make_response's `except Exception`: the failure becomes an
\* ApplicationException(500).  From handle_request's first try it is reported
\* as a 500 error, from the try around the handler as a 400 error; raised under
\* send_error it leaves the dispatcher.
EmissionFails ==
    /\ trail' = Failed(trail, "emission")
    /\ CASE caller \in {"lifespan", "hook"} -> /\ err' = Error(500)
                                               /\ pc' = "send_error"
         [] caller = "handler" -> /\ err' = Error(400)
                                  /\ pc' = "send_error"
         [] OTHER -> /\ pc' = "raised"
                     /\ UNCHANGED err

\* make_response's branch on the scope's type.  On lifespan the message is
\* request.body, which is never the lifespan message: None returns without a
\* send, a decoded body has no 'type' to read.  On websocket it raises.
MakeResponse ==
    /\ pc = "make_response"
    /\ respHooksRun' = << >>
    /\ CASE scope.type = "lifespan" ->
                LET message == RequestBody(request) IN
                IF message.ok /\ message.v = "None"
                THEN /\ pc' = "done"
                     /\ UNCHANGED <<err, idx, trail>>
                ELSE /\ EmissionFails
                     /\ UNCHANGED idx
         [] scope.type = "http" ->
                /\ pc' = "before_response"
                /\ idx' = 1
                /\ UNCHANGED <<err, trail>>
         [] OTHER ->
                /\ EmissionFails
                /\ UNCHANGED idx
    /\ UNCHANGED <<cfgVars, valVars, chanVars, request, route, resp, caller, sent, handed,
                   handlerCalls, reqHooksRun, routeQueries, errQueries>>

\* A loop that calls the hook and keeps the response it had.
KeepResponse(response, returned) == response

\* `response = handler(response)`: the local is bound to what the hook returned.
Rebind(response, returned) == returned

\* One before_response hook, in registration order: response = handler(response).
\* The hook returns the response it was given or one of its own, or raises.
BeforeResponseHook ==
    /\ pc = "before_response"
    /\ idx <= nBeforeResponse
    /\ \E answer \in {"same", "other", "raise"} :
        LET returned == IF answer = "same" THEN resp
                        ELSE Response(202, Body("before_response", idx), "hook")
            call == [hook |-> idx, given |-> resp,
                     returned |-> IF answer = "raise" THEN NoResponse ELSE returned]
        IN  /\ respHooksRun' = Append(respHooksRun, call)
            /\ IF answer = "raise"
               THEN /\ EmissionFails
                    /\ UNCHANGED <<idx, resp>>
               ELSE /\ idx' = idx + 1
                    /\ resp' = Rebind(resp, returned)
                    /\ UNCHANGED <<pc, err, trail>>
    /\ UNCHANGED <<cfgVars, valVars, chanVars, request, route, caller, sent, handed, handlerCalls,
                   reqHooksRun, routeQueries, errQueries>>

BeforeResponseEnd ==
    /\ pc = "before_response"
    /\ idx > nBeforeResponse
    /\ pc' = "send_start"
    /\ UNCHANGED <<cfgVars, valVars, chanVars, request, idx, route, resp, err, caller, sent, obsVars>>

\* MakeResponse(response=response): the response whose status, headers and
\* serialized body the transport reads are those of the response it is made of.
MakeResponseObject(response) == response

\* The two messages of an http response: for OPTIONS status 204 and an empty
\* body with the response's headers, else the response's status and body.
StartMessage(s, r) ==
    LET response == MakeResponseObject(r)
    IN  Message("http.response.start", IF s.method = "OPTIONS" THEN 204 ELSE response.status,
                response.headers, NoBody)
BodyMessage(s, r) ==
    LET response == MakeResponseObject(r)
    IN  Message("http.response.body", 0, "none",
                IF s.method = "OPTIONS" THEN EmptyBytes ELSE response.body)

\* MakeResponse(response=response) and the send of http.response.start; either
\* may raise, and then nothing is delivered.
SendStart ==
    /\ pc = "send_start"
    /\ \E delivered \in BOOLEAN :
        IF delivered
        THEN /\ sent' = Append(sent, StartMessage(scope, resp))
             /\ pc' = "send_body"
             /\ UNCHANGED <<err, trail>>
        ELSE /\ EmissionFails
             /\ UNCHANGED sent
    /\ UNCHANGED <<cfgVars, valVars, chanVars, request, idx, route, resp, caller, handed,
                   handlerCalls, reqHooksRun, routeQueries, errQueries, respHooksRun>>

\* The send of http.response.body, which may raise as well.
SendBody ==
    /\ pc = "send_body"
    /\ \E delivered \in BOOLEAN :
        IF delivered
        THEN /\ sent' = Append(sent, BodyMessage(scope, resp))
             /\ pc' = "done"
             /\ UNCHANGED <<err, trail>>
        ELSE /\ EmissionFails
             /\ UNCHANGED sent
    /\ UNCHANGED <<cfgVars, valVars, chanVars, request, idx, route, resp, caller, handed,
                   handlerCalls, reqHooksRun, routeQueries, errQueries, respHooksRun>>

\* ---------------------------------------------------------- the file storage

\* FileStorage.load: return self.fp.read()
Load ==
    /\ pc = "file"
    /\ file.made /\ ~file.deleted
    /\ LET read == Read(file)
       IN  file' = IF read.raised = "none"
                   THEN [AfterRead(file) EXCEPT !.loaded = read]
                   ELSE [file EXCEPT !.loaded = read]
    /\ UNCHANGED <<cfgVars, urlVars, chanVars, pc, ctlVars, sent, obsVars>>

\* FileStorage.save: the path is taken over, the file at the path is opened
\* for writing only (which empties it), what read() gives of the current file
\* is written to it, the current file is closed and the new file object takes
\* its place.  When read() raises, the new file object stays open, held by
\* nothing.
Save ==
    /\ pc = "file"
    /\ file.made /\ ~file.deleted
    /\ file.saves < MaxSaves
    /\ LET read == Read(file)
           opened == [file EXCEPT !.filepath = "saved", !.written = << >>,
                                  !.handles = file.handles + 1, !.saves = file.saves + 1]
           closed == Close(AfterRead(opened))
       IN  file' = IF read.raised # "none" THEN opened
                   ELSE [closed EXCEPT !.written = read.bytes,
                                       !.fp = [Handle("saved", "wb") EXCEPT
                                                   !.position = Len(read.bytes)],
                                       !.saved = TRUE,
                                       !.loaded = NoLoad]
    /\ UNCHANGED <<cfgVars, urlVars, chanVars, pc, ctlVars, sent, obsVars>>

\* FileStorage.__exit__: self.fp.close()
Exit ==
    /\ pc = "file"
    /\ file.made /\ ~file.deleted
    /\ file' = Close(file)
    /\ UNCHANGED <<cfgVars, urlVars, chanVars, pc, ctlVars, sent, obsVars>>

\* FileStorage.__del__, which runs when nothing refers to the object any more
\* (for a request's body: at some time after the connection's task ended).
Del ==
    /\ pc \in {"file", "done", "raised"}
    /\ file.made /\ ~file.deleted
    /\ file' = [Close(file) EXCEPT !.deleted = TRUE]
    /\ UNCHANGED <<cfgVars, urlVars, chanVars, pc, ctlVars, sent, obsVars>>

\* ------------------------------------------------------ the URL-encoded loops

\* One turn of make_body_from_form's loop over parse_qsl's pairs, or, after
\* the last pair, `return fields`.
FormLoop ==
    /\ pc = "form"
    /\ LET data == ParseQsl(pairs) IN
        IF pos < Len(data)
        THEN /\ fields' = FormField(fields, data[pos + 1])
             /\ pos' = pos + 1
             /\ UNCHANGED pc
        ELSE /\ pc' = "form returned"
             /\ UNCHANGED <<fields, pos>>
    /\ UNCHANGED <<cfgVars, file, pairs, params, p, chanVars, ctlVars, sent, obsVars>>

\* Request.query, which is computed in one go.
QueryMerge ==
    /\ pc = "query"
    /\ p' = Query(pairs)
    /\ pc' = "m_query"
    /\ UNCHANGED <<cfgVars, file, pairs, pos, fields, params, chanVars, ctlVars, sent, obsVars>>

\* One turn of m_query's loop over parse_qsl's pairs, or, after the last
\* pair, `return params`.
MQueryLoop ==
    /\ pc = "m_query"
    /\ LET vals == ParseQsl(pairs) IN
        IF pos < Len(vals)
        THEN /\ params' = MQueryPair(params, vals[pos + 1])
             /\ pos' = pos + 1
             /\ UNCHANGED pc
        ELSE /\ pc' = "m_query returned"
             /\ UNCHANGED <<params, pos>>
    /\ UNCHANGED <<cfgVars, file, pairs, fields, p, chanVars, ctlVars, sent, obsVars>>

\* ------------------------------------------------------------ specifications

Next ==
    \/ MakeRequest
    \/ Receive
    \/ Decode
    \/ ServerHandler
    \/ HandleRequest
    \/ BeforeRequestHook
    \/ BeforeRequestEnd
    \/ QueryRoute
    \/ RouteEnd
    \/ NotFound
    \/ InvokeHandler
    \/ SendError
    \/ QueryErrorHandler
    \/ ErrorHandlersEnd
    \/ MakeResponse
    \/ BeforeResponseHook
    \/ BeforeResponseEnd
    \/ SendStart
    \/ SendBody
    \/ Del

Spec == Init /\ [][Next]_vars

\* Body assembly alone: every way the host can cut a body of at most MaxLen
\* bytes into at most MaxChunks http.request messages, with any more_body flags.
RECURSIVE InboxesWithin(_, _)
InboxesWithin(n, len) ==
    IF n = 0 THEN {<< >>}
    ELSE {<< >>} \cup
         UNION {{<<Chunk(b, more)>> \o rest :
                    more \in BOOLEAN, rest \in InboxesWithin(n - 1, len - Len(b))} :
                b \in SeqsUpTo(Byte, len)}

InitBody ==
    /\ scope = [type |-> "http", method |-> "GET", headers |-> NoHeaders]
    /\ inbox \in InboxesWithin(MaxChunks, MaxLen)
    /\ errorHandler = "OtherClass"
    /\ nTables = 0
    /\ nBeforeRequest = 0
    /\ nBeforeResponse = 0
    /\ pc = "receive"
    /\ Idle
    /\ NoValues

NextBody == Receive

SpecBody == InitBody /\ [][NextBody]_vars

\* RequestMaker.make alone, over the header sets of an http request: any
\* content-type of the registry or outside it, with a charset or a boundary
\* parameter or neither, and any accept header of at most MaxAccept values.
ContentTypes == Range([i \in 1..Len(RequestTypes) |-> RequestTypes[i].mime])
                    \cup {"application/octet-stream"}
AcceptValues == {"text/plain", "application/json", "*/*"}

AllHeaders ==
    {h \in [ct : ContentTypes \cup {Absent},
            charset : {Absent, "utf-8", "bogus"},
            boundary : {Absent, "boundary"},
            accept : (SeqsUpTo(AcceptValues, MaxAccept) \ {<< >>}) \cup {NoAccept}] :
        /\ h.ct = Absent => (h.charset = Absent /\ h.boundary = Absent)
        /\ h.charset = Absent \/ h.boundary = Absent}

InitMake ==
    /\ scope \in [type : {"http"}, method : {"GET"}, headers : AllHeaders]
    /\ inbox \in Inboxes(scope)
    /\ errorHandler = "OtherClass"
    /\ nTables = 0
    /\ nBeforeRequest = 0
    /\ nBeforeResponse = 0
    /\ pc = "make_request"
    /\ Idle
    /\ NoValues

NextMake ==
    \/ MakeRequest
    \/ Receive
    \/ Decode

SpecMake == InitMake /\ [][NextMake]_vars

\* One FileStorage of any value of at most MaxLen bytes, and the calls its
\* holder can make on it.
InitFile ==
    /\ scope = [type |-> "http", method |-> "GET", headers |-> NoHeaders]
    /\ inbox = << >>
    /\ errorHandler = "OtherClass"
    /\ nTables = 0
    /\ nBeforeRequest = 0
    /\ nBeforeResponse = 0
    /\ pc = "file"
    /\ Idle
    /\ file \in {FileStorage(value) : value \in SeqsUpTo(Byte, MaxLen)}
    /\ pairs = << >>
    /\ pos = 0
    /\ fields = EmptyDict
    /\ params = EmptyDict
    /\ p = EmptyDict

NextFile ==
    \/ Load
    \/ Save
    \/ Exit
    \/ Del

SpecFile == InitFile /\ [][NextFile]_vars

\* Every URL-encoded string of at most MaxPairs pairs.
UrlEncoded == SeqsUpTo([k : Keys, v : Values], MaxPairs)

\* The form decoder alone, over every form body.
InitForm ==
    /\ scope = [type |-> "http", method |-> "GET",
                headers |-> ContentType("application/x-www-form-urlencoded", Absent)]
    /\ inbox = << >>
    /\ errorHandler = "OtherClass"
    /\ nTables = 0
    /\ nBeforeRequest = 0
    /\ nBeforeResponse = 0
    /\ pc = "form"
    /\ Idle
    /\ file = NoFile
    /\ pairs \in UrlEncoded
    /\ pos = 0
    /\ fields = EmptyDict
    /\ params = EmptyDict
    /\ p = EmptyDict

NextForm == FormLoop

SpecForm == InitForm /\ [][NextForm]_vars

\* Request.query and then Request.m_query, over every query string.
InitQuery ==
    /\ scope = [type |-> "http", method |-> "GET", headers |-> NoHeaders]
    /\ inbox = << >>
    /\ errorHandler = "OtherClass"
    /\ nTables = 0
    /\ nBeforeRequest = 0
    /\ nBeforeResponse = 0
    /\ pc = "query"
    /\ Idle
    /\ file = NoFile
    /\ pairs \in UrlEncoded
    /\ pos = 0
    /\ fields = EmptyDict
    /\ params = EmptyDict
    /\ p = EmptyDict

NextQuery ==
    \/ QueryMerge
    \/ MQueryLoop

SpecQuery == InitQuery /\ [][NextQuery]_vars

\* --------------------------------------------------------------- properties

OneTo(n) == [i \in 1..n |-> i]

Starts == SelectSeq(sent, LAMBDA m : m.type = "http.response.start")
Bodies == SelectSeq(sent, LAMBDA m : m.type = "http.response.body")

\* The task takes no further step: it returned, it raised to the host, or it
\* awaits a receive that the host has nothing left for.
Stopped == pc \in {"done", "raised"} \/ (pc = "receive" /\ inbox = << >>)

IsHttp == scope.type = "http"
IsOptions == IsHttp /\ scope.method = "OPTIONS"

\* The registry's earliest entry whose MIME type is one of `mimes`.
RECURSIVE Earliest(_, _)
Earliest(mimes, i) ==
    IF i > Len(RequestTypes) THEN NoType
    ELSE IF RequestTypes[i].mime \in mimes THEN RequestTypes[i].format
    ELSE Earliest(mimes, i + 1)

\* The format by the content-type header alone, and by the accept header alone.
ByContentType(h) == IF h.ct = Absent THEN NoType ELSE Earliest({h.ct}, 1)
ByAccept(h) == IF h.accept = NoAccept THEN NoType ELSE Earliest(Range(h.accept), 1)

\* The flags of a Request classified as `format`.
Classified(r, format) ==
    /\ r.is_json = (format = "json")
    /\ r.is_xml = (format = "xml")
    /\ r.is_form = (format \in {"multipart", "form"})
    /\ r.is_buffer = (format = NoType)

\* C1: an OPTIONS request never has a route handler invoked, and what it puts
\* on the outbound channel is a start message of status 204 and an empty body.
C1_OptionsSkipsHandler ==
    IsOptions =>
        /\ handlerCalls = 0
        /\ \A i \in 1..Len(sent) :
            /\ sent[i].type = "http.response.start" => sent[i].status = 204
            /\ sent[i].type = "http.response.body" => sent[i].body = EmptyBytes

\* C2: an http request whose body fails to decode yields a Request with
\* is_exception true, and the dispatcher answers it with a status outside
\* 200..299 without resolving a route or invoking a handler.
C2_DecodeFailureIsCarried ==
    (IsHttp /\ trail.decodeFailed /\ Decoder(scope.headers) # "multipart") =>
        /\ IsException(request)
        /\ \A i \in 1..Len(Starts) : Starts[i].status \notin 200..299
        /\ routeQueries = << >>
        /\ handlerCalls = 0

\* C3: an http request other than OPTIONS never gets a second
\* http.response.start or a second http.response.body, whatever fails during
\* emission; the start comes before the body.
C3_OneStartOneBody ==
    (IsHttp /\ ~IsOptions) =>
        /\ Len(Starts) <= 1
        /\ Len(Bodies) <= 1
        /\ (sent # << >> => sent[1].type = "http.response.start")

\* C4: no http request is finished by the dispatcher without a message having
\* been sent on the outbound channel.
C4_FinishedMeansSent ==
    (IsHttp /\ pc = "done") => sent # << >>

\* The delivered messages are one body cut in N >= 1 chunks: all http.request,
\* more_body true on all but the last.
WellFormedSplit(messages) ==
    /\ Len(messages) >= 1
    /\ \A i \in 1..Len(messages) :
        /\ messages[i].type = "http.request"
        /\ messages[i].more_body = (i < Len(messages))

\* The chunk bodies one after the other.
RECURSIVE Concat(_)
Concat(messages) ==
    IF messages = << >> THEN << >> ELSE Head(messages).body \o Concat(Tail(messages))

\* C5: for a body cut in chunks in any way, get_request_body reads every chunk
\* and returns the bytes of the chunks in arrival order, which is the body
\* whatever the cut.
C5_ChunkingInvariance ==
    WellFormedSplit(received \o inbox) =>
        /\ body = Concat(received)
        /\ (pc = "decode") = (inbox = << >>)

\* A body of two different bytes that came in more than one chunk.
C5_Witness ==
    /\ pc = "decode"
    /\ WellFormedSplit(received)
    /\ Len(received) >= 2
    /\ Len(body) >= 2
    /\ body[1] # body[2]

\* C6: on a lifespan connection, once lifespan.startup was received and the
\* task is finished, lifespan.startup.complete was sent and no http.response
\* message was.
C6_StartupAcknowledged ==
    (/\ scope.type = "lifespan"
     /\ \E i \in 1..Len(received) : received[i].type = "lifespan.startup"
     /\ pc = "done") =>
        /\ LifespanComplete("lifespan.startup.complete") \in Range(sent)
        /\ Starts = << >> /\ Bodies = << >>

\* C7: on a lifespan connection, once lifespan.shutdown was received and the
\* task takes no further step, lifespan.shutdown.complete was sent.
C7_ShutdownAcknowledged ==
    (/\ scope.type = "lifespan"
     /\ \E i \in 1..Len(received) : received[i].type = "lifespan.shutdown"
     /\ Stopped) =>
        LifespanComplete("lifespan.shutdown.complete") \in Range(sent)

\* C8: a handler's 2-tuple or 3-tuple (body, status[, headers]) is normalized
\* into the response of that body, status and headers, not into an error.
C8_TupleIsNormalized ==
    LET t == trail.returned.items IN
    (/\ trail.returned.kind = "tuple"
     /\ Len(t) \in {2, 3}
     /\ trail.failedAt # "modify_response") =>
        /\ trail.failedAt # "normalize"
        /\ handed # << >>
        /\ handed[1].body = t[1]
        /\ handed[1].status = t[2]
        /\ (Len(t) = 3 => handed[1].headers = t[3])

\* C9: when a custom error handler built the error response, no routing table
\* is asked for an error handler and none is applied to that response; tables
\* are asked in registration order up to the first that has one.
C9_ErrorHandlerPrecedence ==
    /\ trail.customError => (errQueries = << >> /\ trail.errorTable = 0)
    /\ trail.errorTable # 0 => errQueries = OneTo(trail.errorTable)

\* What C10's two statements share: after the hook that ended dispatch no
\* later hook ran, no table was asked for a route and no handler was invoked;
\* and route resolution is reached only after every hook answered empty.
HookStopsDispatch ==
    /\ trail.stopHook # 0 =>
        /\ reqHooksRun = OneTo(trail.stopHook)
        /\ routeQueries = << >>
        /\ handlerCalls = 0
        /\ handed # << >>
    /\ (pc \in {"route", "dispatch"} \/ routeQueries # << >>) =>
        /\ trail.stopHook = 0
        /\ reqHooksRun = OneTo(nBeforeRequest)

\* C10, as stated: the value of the hook that ended dispatch, of whatever type,
\* is given to the transport wrapped into a status-200 response.
C10_HookValueWrappedAs200 ==
    /\ HookStopsDispatch
    /\ trail.stopHook # 0 =>
        handed[1] = Response(200, trail.stopValue.resp.body, "default")

\* C10, amended: global before_request hooks run in registration order; the
\* first non-empty value ends dispatch: a string is given to the transport
\* wrapped into a status-200 response, a response object as it is, with its
\* own status.
C10_HookValueStopsDispatch ==
    /\ HookStopsDispatch
    /\ (trail.stopHook # 0 /\ trail.stopValue.kind = "str") =>
        handed[1] = Response(200, trail.stopValue.resp.body, "default")
    /\ (trail.stopHook # 0 /\ trail.stopValue.kind = "Response") =>
        handed[1] = trail.stopValue.resp

\* The second hook answered a 403 response, which was sent with that status.
C10_Witness ==
    /\ trail.stopHook = 2
    /\ trail.stopValue.kind = "Response"
    /\ trail.stopValue.resp.status = 403
    /\ pc = "done"
    /\ Len(sent) = 2
    /\ sent[1].status = 403

\* C11: a Request is classified by its content-type header whenever that
\* header matches a registry entry, and by the accept header (its earliest
\* registry entry) only when the content-type is absent or matches no entry.
C11_ContentTypeBeforeAccept ==
    request.made =>
        LET h == scope.headers
            format == IF ByContentType(h) # NoType THEN ByContentType(h) ELSE ByAccept(h)
        IN  /\ RequestType(h) = format
            /\ Classified(request, format)

\* C12: no exception of a body decoder leaves RequestMaker.make: whenever a
\* decoder failed, make returned a Request that carries the failure.
C12_DecoderFailureNeverLeavesMake ==
    trail.decodeFailed =>
        /\ trail.failedAt # "decoder"
        /\ pc # "make_request" /\ pc # "receive" /\ pc # "decode" /\ pc # "raised" =>
            (request.made /\ IsException(request))

\* C13: a request whose path matches a static prefix is answered, by the time
\* the dispatcher is done, with one response of status 200 (the file) or 404
\* (no such file), and no global before_request hook ran, no table was asked
\* for a route and no route handler was invoked.
C13_StaticIsServed ==
    (trail.static /\ pc = "done") =>
        /\ Len(Starts) = 1 /\ Len(Bodies) = 1
        /\ Starts[1].status \in {200, 204, 404}
        /\ reqHooksRun = << >>
        /\ routeQueries = << >>
        /\ handlerCalls = 0

\* C14: a FileStorage always holds exactly one file object, which is open for
\* reading or closed; once save returned, filepath is the new path, the
\* temporary file is closed, and a load on the still open file object reads
\* from the new path.
C14_SaveRepointsLoad ==
    file.made =>
        /\ \/ file.handles = 1 /\ ~file.fp.closed /\ file.fp.mode = "w+b"
           \/ file.handles = 0 /\ file.fp.closed
        /\ file.saved =>
            /\ file.filepath = "saved"
            /\ file.fp.path = "saved"
            /\ file.tempClosed
            /\ (file.loaded.called /\ ~file.fp.closed) => file.loaded.raised = "none"

\* The values, in order, of the occurrences of a key in a URL-encoded string.
Occurrences(string, k) ==
    LET own == SelectSeq(string, LAMBDA pair : pair.k = k)
    IN  [i \in 1..Len(own) |-> own[i].v]

\* C15: when the form decoder has returned, a key that occurs once
\* in the body maps to one FieldStorage, a key that occurs k >= 2 times to the
\* list of its k FieldStorage values in arrival order, and a key that does not
\* occur is not in the mapping.
C15_FormKeysByOccurrence ==
    pc = "form returned" =>
        \A k \in Keys :
            LET values == Occurrences(pairs, k)
                stored == [i \in 1..Len(values) |-> FieldStorage(k, values[i])]
            IN  fields[k] = IF values = << >> THEN Missing
                            ELSE IF Len(values) = 1 THEN Scalar(stored[1])
                            ELSE List(stored)

\* What a mapping holds for a key whose values, in order, are `values`.
Merged(values) ==
    IF values = << >> THEN Missing
    ELSE IF Len(values) = 1 THEN Scalar(values[1])
    ELSE List(values)

\* No pair of the string has a blank value.
NonEmptyValues(string) == \A i \in 1..Len(string) : string[i].v # ""

\* C16: Request.query and Request.m_query give the same mapping for the same
\* query string; for a string with non-empty values a key that does not occur
\* is in neither, a key that occurs once maps to its value, and a key that
\* occurs k >= 2 times maps to the list of its k values in arrival order.  At
\* every turn of m_query's loop the mapping holds every value read so far.
C16_QueryAndMQueryAgree ==
    /\ pc \in {"m_query", "m_query returned"} =>
        \A k \in Keys :
            params[k] = Merged(Occurrences(SubSeq(ParseQsl(pairs), 1, pos), k))
    /\ pc = "m_query returned" =>
        /\ params = p
        /\ NonEmptyValues(pairs) =>
            \A k \in Keys : p[k] = Merged(Occurrences(pairs, k))

\* Both mappings were computed for a string in which one key occurs three
\* times, with different values, and the other key does not occur.
C16_Witness ==
    /\ pc = "m_query returned"
    /\ NonEmptyValues(pairs)
    /\ Len(pairs) = 3
    /\ params["a"] = List(<<"1", "2", "1">>)
    /\ params["b"] = Missing
    /\ p["a"].kind = "list"

\* C17: of a Request that make returned at most one of is_json, is_form and
\* is_buffer is true, and when none is, the body is what the raw decoder gave:
\* the buffer, or the FileStorage that holds it.
C17_OneFlagOrRawBody ==
    request.made =>
        /\ ~(request.is_json /\ request.is_form)
        /\ ~(request.is_json /\ request.is_buffer)
        /\ ~(request.is_form /\ request.is_buffer)
        /\ (~request.is_json /\ ~request.is_form /\ ~request.is_buffer) =>
            /\ ~IsException(request)
            /\ request.body \in {"bytes", "FileStorage"}
            /\ request.body = "bytes" <=> MagicFromBuffer(body) \in TextMimeTypes
            /\ request.body = "FileStorage" => (file.made /\ file.value = body)

\* A Request of an XML content type and a binary body: no flag of the three
\* is true and the body is a FileStorage.
C17_Witness ==
    /\ request.made
    /\ request.is_xml
    /\ ~request.is_json /\ ~request.is_form /\ ~request.is_buffer
    /\ request.body = "FileStorage"
    /\ file.value = <<"FF">>

\* C18: on a websocket connection the task does not end up waiting on the
\* receive channel: it stops in the failure that the emission raised
\* ('WebSocket not implemented', made a status-500 failure), raised to the
\* host, with the emission attempted once and nothing sent.
C18_WebSocketFailsFatally ==
    (scope.type = "websocket" /\ Stopped) =>
        /\ pc = "raised"
        /\ trail.failedAt = "emission"
        /\ Len(handed) = 1
        /\ sent = << >>

\* C19: a multipart/form-data request whose content-type has a boundary
\* parameter is not failed by its decoder, and the Request made of it is
\* form-classified, carries no exception and has the mapping of its parts as
\* body.
C19_MultipartIsDecoded ==
    (ByContentType(scope.headers) = "multipart" /\ scope.headers.boundary # Absent) =>
        /\ ~trail.decodeFailed
        /\ trail.failedAt # "decoder"
        /\ request.made =>
            /\ request.is_form
            /\ ~IsException(request)
            /\ request.body = "fields"

\* C20: when the processing of a request is over, whether the dispatcher
\* returned or an exception left it, the temporary file of the FileStorage
\* made for the request's body has been closed.
C20_TempFileReleased ==
    (pc \in {"done", "raised"} /\ file.made) => file.fp.closed

\* C21: the routing tables are asked in registration order and the asking stops
\* at the first match: request.route is that match, request.itinerary the table
\* it came from, no later table is asked, the handler is given the path
\* parameters that same table extracted, and every before_request hook of the
\* matched route has run by the time the handler is invoked.
C21_FirstMatchIsRouted ==
    /\ routeQueries = OneTo(Len(routeQueries))
    /\ route.matched =>
            /\ route.table = Len(routeQueries)
            /\ route.itinerary = route.table
    /\ handlerCalls > 0 =>
            /\ route.matched
            /\ trail.handlerParams = route.table
            /\ trail.routeHooksRun = route.hooks

\* The second table matched after the first did not, the route has a hook, and
\* the handler was invoked.
C21_Witness ==
    /\ handlerCalls = 1
    /\ routeQueries = <<1, 2>>
    /\ route.table = 2
    /\ route.hooks = 1
    /\ trail.routeHooksRun = 1
    /\ trail.handlerParams = 2

\* C22: no exception leaves the dispatcher: a failure of the transport while it
\* emits the response that send_error handed to it does not end the task by
\* raising to the host.
C22_NoExceptionLeavesDispatcher ==
    caller = "send_error" => pc # "raised"

\* C23: on an http connection body assembly ends with the first message that
\* is not a body chunk or whose more_body is false: having received one, the
\* task is not at get_request_body's receive.
C23_BodyAssemblyEnds ==
    (/\ IsHttp
     /\ received # << >>
     /\ LET last == received[Len(received)]
        IN  ~IsBodyMessage(last) \/ ~last.more_body)
    => pc # "receive"

\* C24: with no error handler configured (None) and no table that has a handler
\* for the error, a task that ended after an error was reported to send_error
\* handed the transport the default error response with the error's status.
C24_DefaultErrorResponse ==
    (/\ errorHandler = "None"
     /\ err # NoError
     /\ trail.errorTable = 0
     /\ pc \in {"done", "raised"})
    => \E i \in 1..Len(handed) :
            handed[i] = Response(err.status, Body("BadResponse", 0), "default")

\* The response the transport holds after the before_response calls made so
\* far: the one make_response was given, or the last call's value.
C25_LastResponse ==
    IF respHooksRun = << >> THEN handed[Len(handed)]
    ELSE respHooksRun[Len(respHooksRun)].returned

C26_RedirectIsEmitted ==
    (route.matched /\ route.redirect /\ pc # "dispatch") =>
        /\ handlerCalls = 0
        /\ trail.failedAt # "not found"
        /\ handed # << >>

====
